---------------------------- MODULE Spec2Model ----------------------------
(***************************************************************************)
(* WebDAV COPY handler (handleCopy) of CloudPaste over an object store,    *)
(* and the direct upload of the browser client (directUploadFile).         *)
(* Paths and object keys are sequences of one-character strings, so that   *)
(* the handler's string arithmetic (endsWith, includes, lastIndexOf,       *)
(* substring, concatenation) is computed and not assumed.                  *)
(* Every await on the storage client is one step of a request.             *)
(***************************************************************************)
EXTENDS Integers, Sequences, FiniteSets, TLC

VARIABLES store, req, cacheCalls, lastUsed, touched, writes, up

vars == <<store, req, cacheCalls, lastUsed, touched, writes, up>>

(* ------------------------------ bounds -------------------------------- *)

\* Size of one page of a listing (MaxKeys of the enumeration of the source).
PageSize == 2

\* Number of storage calls of one request that may fail with a non-404 error.
MaxFaults == 1

(* ------------------------- strings as sequences ----------------------- *)

\* null / undefined of a path-valued expression (no character is "null")
Null == <<"null">>

\* String.prototype.endsWith / startsWith / includes for one-character needles
EndsWith(s, c) == Len(s) > 0 /\ s[Len(s)] = c

StartsWith(s, p) ==
  /\ Len(p) <= Len(s)
  /\ \A i \in 1..Len(p) : s[i] = p[i]

Includes(s, c) == \E i \in 1..Len(s) : s[i] = c

\* String.prototype.lastIndexOf, 0-based, -1 when absent
LastIndexOf(s, c) ==
  IF Includes(s, c)
    THEN (CHOOSE i \in 1..Len(s) : s[i] = c /\ \A j \in (i+1)..Len(s) : s[j] # c) - 1
    ELSE -1

\* String.prototype.substring(from, to) and substring(from), 0-based, to exclusive
Substring(s, from, to) == SubSeq(s, from + 1, to)

SubstringFrom(s, from) == SubSeq(s, from + 1, Len(s))

\* UTF-8 binary order of the characters in use ("/" sorts before the letters)
Ord(c) ==
  CASE c = "/" -> 1
    [] c = "a" -> 2
    [] c = "c" -> 3
    [] c = "d" -> 4
    [] c = "e" -> 5
    [] c = "k" -> 6
    [] c = "m" -> 7
    [] c = "n" -> 8
    [] c = "r" -> 9
    [] c = "x" -> 10
    [] c = "z" -> 11
    [] OTHER -> 12

\* lexicographic order of keys, the order in which the store lists them
KeyLess(s, t) ==
  \E i \in 1..(Len(t)) :
    /\ \A j \in 1..(i-1) : j <= Len(s) /\ s[j] = t[j]
    /\ \/ i = Len(s) + 1
       \/ i <= Len(s) /\ Ord(s[i]) < Ord(t[i])


(* --------------------------- mounts and configs ----------------------- *)

\* Mount records of the metadata store: virtual prefix and backend config id.
Mounts ==
  { [id |-> "m1", mount_path |-> <<"/", "m">>, storage_config_id |-> "c1"],
    [id |-> "m2", mount_path |-> <<"/", "n">>, storage_config_id |-> "c2"],
    [id |-> "m3", mount_path |-> <<"/", "k">>, storage_config_id |-> "c3"],
    [id |-> "m4", mount_path |-> <<"/", "x">>, storage_config_id |-> "c1"] }

\* Mounts on which the acting principal holds the "operation" capability.
Permitted == {"m1", "m2", "m3"}

\* Rows of s3_configs; config c3 of mount m3 has no row.
S3Configs ==
  { [id |-> "c1", bucket_name |-> "b1", root_prefix |-> <<>>],
    [id |-> "c2", bucket_name |-> "b2", root_prefix |-> <<"r">>] }

Buckets == {"b1", "b2"}

\* a lookup that found no mount / no config row (undefined, null)
NoMount == [id |-> "none", mount_path |-> <<>>, storage_config_id |-> "none"]

NoConfig == [id |-> "none", bucket_name |-> "none", root_prefix |-> <<>>]

\* db.prepare("SELECT * FROM s3_configs WHERE id = ?").bind(id).first()
LoadS3Config(id) ==
  IF \E c \in S3Configs : c.id = id
    THEN CHOOSE c \in S3Configs : c.id = id
    ELSE NoConfig

\* a mount matches a path equal to its prefix or lying below it
MountMatches(m, path) ==
  /\ StartsWith(path, m.mount_path)
  /\ \/ Len(path) = Len(m.mount_path)
     \/ path[Len(m.mount_path) + 1] = "/"

\* resolve(virtualPath, principal, "operation"): longest-prefix match;
\* NotFound without a match, Forbidden without the capability, IsRoot for "/";
\* error is the status of the failure, 0 when there is none
findMountPointByPath(path) ==
  IF path = <<"/">>
    THEN [isRoot |-> TRUE, error |-> 0, mount |-> NoMount, subPath |-> Null]
  ELSE IF ~ \E m \in Mounts : MountMatches(m, path)
    THEN [isRoot |-> FALSE, error |-> 404, mount |-> NoMount, subPath |-> Null]
  ELSE LET m == CHOOSE x \in Mounts :
                  /\ MountMatches(x, path)
                  /\ \A y \in Mounts : MountMatches(y, path)
                        => Len(y.mount_path) <= Len(x.mount_path)
           rest == SubstringFrom(path, Len(m.mount_path))
       IN IF m.id \notin Permitted
            THEN [isRoot |-> FALSE, error |-> 403, mount |-> NoMount, subPath |-> Null]
            ELSE [isRoot |-> FALSE, error |-> 0, mount |-> m,
                  subPath |-> IF rest = <<>> THEN <<"/">> ELSE rest]

\* replace(/\/+/g, "/"): runs of separators collapse to one
RECURSIVE CollapseSlashes(_)
CollapseSlashes(s) ==
  IF Len(s) <= 1 THEN s
  ELSE IF s[1] = "/" /\ s[2] = "/" THEN CollapseSlashes(Tail(s))
  ELSE <<s[1]>> \o CollapseSlashes(Tail(s))

\* root prefix with exactly one trailing separator, empty when not configured
RootPrefix(s3Config) ==
  IF s3Config.root_prefix # <<>>
    THEN (IF EndsWith(s3Config.root_prefix, "/")
            THEN s3Config.root_prefix
            ELSE s3Config.root_prefix \o <<"/">>)
    ELSE <<>>

\* sub-path of a mount to object key: leading separator dropped, duplicate
\* separators collapsed, trailing separator added for a directory, root prefix
\* prepended
normalizeS3SubPath(subPath, s3Config, asDirectory) ==
  LET stripped == IF StartsWith(subPath, <<"/">>) THEN SubstringFrom(subPath, 1) ELSE subPath
      collapsed == CollapseSlashes(stripped)
      suffixed == IF asDirectory /\ collapsed # <<>> /\ ~EndsWith(collapsed, "/")
                    THEN collapsed \o <<"/">>
                    ELSE collapsed
  IN RootPrefix(s3Config) \o suffixed

\* Destination header to virtual path: an absolute URL loses scheme and host
\* (written "h" here), a relative target is taken as it is; no header or an
\* empty one gives null
parseDestinationPath(destination) ==
  IF destination = Null \/ destination = <<>> THEN Null
  ELSE IF ~Includes(destination, "/") THEN Null
  ELSE LET first == CHOOSE i \in 1..Len(destination) :
                      destination[i] = "/" /\ \A j \in 1..(i-1) : destination[j] # "/"
       IN SubstringFrom(destination, first - 1)

(* ------------------------------ object store ------------------------- *)

\* store[b] maps the keys of the objects of bucket b to their contents;
\* content 0 is the zero-length body of a directory marker.

Exists(b, key) == key \in DOMAIN store[b]

\* PutObject / CopyObject: the object at key is created or replaced
Written(st, b, key, content) ==
  [st EXCEPT ![b] = [k \in (DOMAIN st[b]) \cup {key} |->
                       IF k = key THEN content ELSE st[b][k]]]

\* keys of bucket b that start with prefix and sort after the token
\* (token <<>> is the start of the listing)
Matching(b, prefix, token) ==
  { k \in DOMAIN store[b] : StartsWith(k, prefix) /\ (token = <<>> \/ KeyLess(token, k)) }

\* the n smallest keys of a set, in listing order
RECURSIVE FirstKeys(_, _)
FirstKeys(keys, n) ==
  IF n = 0 \/ keys = {} THEN <<>>
  ELSE LET least == CHOOSE k \in keys : \A o \in keys : o = k \/ KeyLess(k, o)
       IN <<least>> \o FirstKeys(keys \ {least}, n - 1)

\* ListObjectsV2: one page of at most maxKeys keys and, when keys remain,
\* the continuation token (the last key returned); <<>> when the page is the last
ListObjectsV2(b, prefix, token, maxKeys) ==
  LET all == Matching(b, prefix, token)
      page == FirstKeys(all, maxKeys)
  IN [Contents |-> page,
      NextContinuationToken |->
        IF Cardinality(all) > maxKeys THEN page[Len(page)] ELSE <<>>]

(* ------------------------------- requests ----------------------------- *)

\* One entry of a request's trace of collaborator calls: the operation, the
\* place of the handler that issued it, the key (and the copy source or the
\* continuation token), and how it ended ("ok", "404" or "err").
Call(op, at, key, from, res) ==
  [op |-> op, at |-> at, key |-> key, from |-> from, res |-> res]

\* handleWebDAVError("COPY", error, false, false): the shared translation of
\* a thrown error into a response; never a success status
handleWebDAVError(httpStatusCode) == 500

\* c.req.headers.get("Depth") || "infinity": get gives null without the
\* header ("none"); null and the empty value are both falsy
DepthOf(q) == IF q.depth \in {"none", ""} THEN "infinity" ELSE q.depth

\* Faulty variant: the comparison of source and destination path is dropped
Validation_NoSamePathCheck(q) ==
  LET src == findMountPointByPath(q.path)
      destPath == parseDestinationPath(q.destination)
      dst == findMountPointByPath(destPath)
      one == <<Call("findMount", "source", q.path, <<>>, "ok")>>
      two == one \o <<Call("findMount", "dest", destPath, <<>>, "ok")>>
      three == two \o <<Call("loadConfig", "config", <<>>, <<>>, "ok")>>
  IN IF src.error # 0
       THEN [status |-> src.error, via |-> "return", calls |-> one]
     ELSE IF destPath = Null
       THEN [status |-> 400, via |-> "return", calls |-> one]
     ELSE IF dst.isRoot
       THEN [status |-> 403, via |-> "return", calls |-> two]
     ELSE IF dst.error # 0
       THEN [status |-> dst.error, via |-> "return", calls |-> two]
     ELSE IF src.mount = NoMount
       \* sourceMountResult.mount is undefined: reading .id throws a TypeError
       THEN [status |-> handleWebDAVError(0), via |-> "catch", calls |-> two]
     ELSE IF src.mount.id # dst.mount.id
       THEN [status |-> 502, via |-> "return", calls |-> two]
     ELSE IF DepthOf(q) # "0" /\ DepthOf(q) # "infinity"
       THEN [status |-> 400, via |-> "return", calls |-> two]
     ELSE IF LoadS3Config(src.mount.storage_config_id) = NoConfig
       THEN [status |-> 404, via |-> "return", calls |-> three]
     ELSE [status |-> 0, via |-> "none", calls |-> three]

\* Faulty variant: the Depth header is checked before the mounts are compared
Validation_DepthBeforeMounts(q) ==
  LET src == findMountPointByPath(q.path)
      destPath == parseDestinationPath(q.destination)
      dst == findMountPointByPath(destPath)
      one == <<Call("findMount", "source", q.path, <<>>, "ok")>>
      two == one \o <<Call("findMount", "dest", destPath, <<>>, "ok")>>
      three == two \o <<Call("loadConfig", "config", <<>>, <<>>, "ok")>>
  IN IF src.error # 0
       THEN [status |-> src.error, via |-> "return", calls |-> one]
     ELSE IF destPath = Null
       THEN [status |-> 400, via |-> "return", calls |-> one]
     ELSE IF q.path = destPath
       THEN [status |-> 400, via |-> "return", calls |-> one]
     ELSE IF dst.isRoot
       THEN [status |-> 403, via |-> "return", calls |-> two]
     ELSE IF dst.error # 0
       THEN [status |-> dst.error, via |-> "return", calls |-> two]
     ELSE IF src.mount = NoMount
       \* sourceMountResult.mount is undefined: reading .id throws a TypeError
       THEN [status |-> handleWebDAVError(0), via |-> "catch", calls |-> two]
     ELSE IF DepthOf(q) # "0" /\ DepthOf(q) # "infinity"
       THEN [status |-> 400, via |-> "return", calls |-> two]
     ELSE IF src.mount.id # dst.mount.id
       THEN [status |-> 502, via |-> "return", calls |-> two]
     ELSE IF LoadS3Config(src.mount.storage_config_id) = NoConfig
       THEN [status |-> 404, via |-> "return", calls |-> three]
     ELSE [status |-> 0, via |-> "none", calls |-> three]

\* Lines 22-95 of the handler: mount resolution, header checks, config load.
\* status 0 means the request goes on to the storage calls.
\* Faulty variant: a destination that resolves to the virtual root is not
\* rejected
Validation_NoRootCheck(q) ==
  LET src == findMountPointByPath(q.path)
      destPath == parseDestinationPath(q.destination)
      dst == findMountPointByPath(destPath)
      one == <<Call("findMount", "source", q.path, <<>>, "ok")>>
      two == one \o <<Call("findMount", "dest", destPath, <<>>, "ok")>>
      three == two \o <<Call("loadConfig", "config", <<>>, <<>>, "ok")>>
  IN IF src.error # 0
       THEN [status |-> src.error, via |-> "return", calls |-> one]
     ELSE IF destPath = Null
       THEN [status |-> 400, via |-> "return", calls |-> one]
     ELSE IF q.path = destPath
       THEN [status |-> 400, via |-> "return", calls |-> one]
     ELSE IF dst.error # 0
       THEN [status |-> dst.error, via |-> "return", calls |-> two]
     ELSE IF src.mount = NoMount
       \* sourceMountResult.mount is undefined: reading .id throws a TypeError
       THEN [status |-> handleWebDAVError(0), via |-> "catch", calls |-> two]
     ELSE IF src.mount.id # dst.mount.id
       THEN [status |-> 502, via |-> "return", calls |-> two]
     ELSE IF DepthOf(q) # "0" /\ DepthOf(q) # "infinity"
       THEN [status |-> 400, via |-> "return", calls |-> two]
     ELSE IF LoadS3Config(src.mount.storage_config_id) = NoConfig
       THEN [status |-> 404, via |-> "return", calls |-> three]
     ELSE [status |-> 0, via |-> "none", calls |-> three]

Validation(q) ==
  LET src == findMountPointByPath(q.path)
      destPath == parseDestinationPath(q.destination)
      dst == findMountPointByPath(destPath)
      one == <<Call("findMount", "source", q.path, <<>>, "ok")>>
      two == one \o <<Call("findMount", "dest", destPath, <<>>, "ok")>>
      three == two \o <<Call("loadConfig", "config", <<>>, <<>>, "ok")>>
  IN IF src.error # 0
       THEN [status |-> src.error, via |-> "return", calls |-> one]
     ELSE IF destPath = Null
       THEN [status |-> 400, via |-> "return", calls |-> one]
     ELSE IF q.path = destPath
       THEN [status |-> 400, via |-> "return", calls |-> one]
     ELSE IF dst.isRoot
       THEN [status |-> 403, via |-> "return", calls |-> two]
     ELSE IF dst.error # 0
       THEN [status |-> dst.error, via |-> "return", calls |-> two]
     ELSE IF src.mount = NoMount
       \* sourceMountResult.mount is undefined: reading .id throws a TypeError
       THEN [status |-> handleWebDAVError(0), via |-> "catch", calls |-> two]
     ELSE IF src.mount.id # dst.mount.id
       THEN [status |-> 502, via |-> "return", calls |-> two]
     ELSE IF DepthOf(q) # "0" /\ DepthOf(q) # "infinity"
       THEN [status |-> 400, via |-> "return", calls |-> two]
     ELSE IF LoadS3Config(src.mount.storage_config_id) = NoConfig
       THEN [status |-> 404, via |-> "return", calls |-> three]
     ELSE [status |-> 0, via |-> "none", calls |-> three]

\* const isDirectory = path.endsWith("/")
IsDirectory(q) == EndsWith(q.path, "/")

\* const allowOverwrite = overwrite !== "F"
AllowOverwrite(q) == q.overwrite # "F"

\* destS3SubPath.substring(0, destS3SubPath.lastIndexOf("/") + 1)
DestParentPath(destS3SubPath) ==
  Substring(destS3SubPath, 0, LastIndexOf(destS3SubPath, "/") + 1)

\* the request after lines 87-109: the locals the rest of the handler uses
Locals(q) ==
  LET src == findMountPointByPath(q.path)
      dst == findMountPointByPath(parseDestinationPath(q.destination))
      s3Config == LoadS3Config(src.mount.storage_config_id)
  IN [q EXCEPT !.mountId = src.mount.id,
               !.bucket = s3Config.bucket_name,
               !.rootPrefix = RootPrefix(s3Config),
               !.isDirectory = IsDirectory(q),
               !.sourceS3SubPath = normalizeS3SubPath(src.subPath, s3Config, IsDirectory(q)),
               !.destS3SubPath = normalizeS3SubPath(dst.subPath, s3Config, IsDirectory(q)),
               !.allowOverwrite = AllowOverwrite(q)]

\* a response leaves the handler: by a return statement or by the catch block
Respond(q, status, via) == [q EXCEPT !.pc = "done", !.status = status, !.via = via]

\* an awaited call threw: the catch block of line 310 answers
Throw(q, httpStatusCode) == Respond(q, handleWebDAVError(httpStatusCode), "catch")

Logged(q, call) == [q EXCEPT !.log = Append(@, call)]

(* --------------------------------- inputs ----------------------------- *)

SourcePaths ==
  { <<"/", "m", "/", "a", "/">>,
    <<"/", "m", "/", "a", "/", "c">>,
    <<"/", "n", "/", "a">>,
    <<"/", "k", "/", "a">>,
    <<"/", "x", "/", "a">>,
    <<"/", "e">>,
    <<"/">> }

\* Destination headers: none, one without a path, relative targets and an
\* absolute URL ("h" stands for scheme and host)
Destinations ==
  { Null,
    <<"h">>,
    <<"/", "m", "/", "a", "/">>,
    <<"/", "m", "/", "a", "/", "z", "/">>,
    <<"/", "m", "/", "a", "/", "c">>,
    <<"/", "m", "/", "d", "/">>,
    <<"/", "m", "/", "d", "/", "c">>,
    <<"/", "m", "/", "e">>,
    <<"h", "/", "m", "/", "d", "/">>,
    <<"/", "n", "/", "a">>,
    <<"/", "n", "/", "e">>,
    <<"/", "k", "/", "e">>,
    <<"/", "x", "/", "a">>,
    <<"/", "e">>,
    <<"/">> }

Depths == {"none", "", "0", "infinity", "1"}

Overwrites == {"none", "F", "T"}

EmptyBucket == [k \in {} |-> 0]

\* a bucket from a set of <<key, content>> pairs
FromPairs(S) == [k \in {p[1] : p \in S} |-> (CHOOSE p \in S : p[1] = k)[2]]

\* objects bucket b1 may hold when a request arrives (markers have content 0)
Catalog1 ==
  { << <<"a", "/">>, 0 >>,
    << <<"a", "/", "c">>, 1 >>,
    << <<"a", "/", "z", "/", "c">>, 2 >>,
    << <<"d", "/">>, 0 >>,
    << <<"d", "/", "c">>, 3 >> }

Catalog2 ==
  { << <<"r", "/", "a">>, 4 >>,
    << <<"r", "/", "e">>, 5 >> }

InitStores ==
  { [b1 |-> FromPairs(S), b2 |-> EmptyBucket] : S \in SUBSET Catalog1 }
    \cup { [b1 |-> EmptyBucket, b2 |-> FromPairs(S)] : S \in (SUBSET Catalog2) \ {{}} }

\* a request that has just arrived
NewRequest(path, destination, depth, overwrite) ==
  [ path |-> path, destination |-> destination, depth |-> depth, overwrite |-> overwrite,
    pc |-> "start", status |-> 0, via |-> "none",
    mountId |-> "none", bucket |-> "none", rootPrefix |-> <<>>,
    isDirectory |-> FALSE, sourceS3SubPath |-> <<>>, destS3SubPath |-> <<>>,
    allowOverwrite |-> TRUE, destExists |-> FALSE,
    objects |-> <<>>, continuationToken |-> <<>>, i |-> 1,
    log |-> <<>>, faults |-> 0, snap |-> EmptyBucket ]

Requests ==
  { NewRequest(p, d, dp, ow) :
      p \in SourcePaths, d \in Destinations, dp \in Depths, ow \in Overwrites }

\* Requests handled at the same time: directory copies in both directions
\* and two file copies to one destination.
ConcurrentRequests ==
  { NewRequest(<<"/", "m", "/", "a", "/">>, <<"/", "m", "/", "d", "/">>, "none", "none"),
    NewRequest(<<"/", "m", "/", "d", "/">>, <<"/", "m", "/", "a", "/">>, "0", "none"),
    NewRequest(<<"/", "m", "/", "a", "/", "c">>, <<"/", "m", "/", "e">>, "none", "F"),
    NewRequest(<<"/", "m", "/", "d", "/", "c">>, <<"/", "m", "/", "e">>, "none", "none") }

ConcurrentStores ==
  { [b1 |-> FromPairs(S), b2 |-> EmptyBucket] :
      S \in SUBSET { << <<"a", "/", "c">>, 1 >>, << <<"d", "/">>, 0 >>, << <<"d", "/", "c">>, 3 >> } }

\* no upload of the browser client is in progress
NoUpload == [pc |-> "none"]

\* One request in flight over any store, or two over a few stores.
Init ==
  /\ \/ /\ store \in InitStores
        /\ req \in [{1} -> Requests]
     \/ /\ store \in ConcurrentStores
        /\ req \in [{1, 2} -> ConcurrentRequests]
  /\ cacheCalls = <<>>
  /\ lastUsed = [m \in {x.id : x \in Mounts} |-> 0]
  /\ touched = {}
  /\ writes = <<>>
  /\ up = NoUpload

(* --------------------------------- actions ---------------------------- *)

\* Lines 22-109: everything before the first storage call.
Resolve(r) ==
  /\ req[r].pc = "start"
  /\ LET q == req[r]
         v == Validation(q)
         arrived == [q EXCEPT !.log = v.calls, !.snap = store]
     IN req' = [req EXCEPT ![r] =
          IF v.status # 0 THEN Respond(arrived, v.status, v.via)
          ELSE LET l == Locals(arrived)
               IN [l EXCEPT !.pc = IF Includes(l.destS3SubPath, "/")
                                     THEN "checkParentHead" ELSE "headDest"]]
  /\ UNCHANGED <<store, cacheCalls, lastUsed, touched, writes, up>>

\* a storage call of the request may still fail with a non-404 error
CanFault(q) == q.faults < MaxFaults

Faulted(q, call) == Throw(Logged([q EXCEPT !.faults = @ + 1], call), 500)

\* a put or copy of request r takes effect: the object is created or replaced;
\* writes keeps the order in which the store applied the writes
Applied(r, b, key, content) ==
  /\ store' = Written(store, b, key, content)
  /\ writes' = Append(writes, [r |-> r, bucket |-> b, key |-> key, content |-> content])

\* a put or copy that failed has no effect
NotApplied == UNCHANGED <<store, writes>>

\* checkDirectoryExists, first call: head of the explicit marker of the
\* destination's parent directory (lines 112-114)
CheckParentHead(r) ==
  /\ req[r].pc = "checkParentHead"
  /\ LET q == req[r]
         key == DestParentPath(q.destS3SubPath)
     IN \/ /\ Exists(q.bucket, key)
           /\ req' = [req EXCEPT ![r] =
                [Logged(q, Call("head", "parent", key, <<>>, "ok")) EXCEPT !.pc = "headDest"]]
        \/ /\ ~Exists(q.bucket, key)
           /\ req' = [req EXCEPT ![r] =
                [Logged(q, Call("head", "parent", key, <<>>, "404")) EXCEPT !.pc = "checkParentList"]]
        \/ /\ CanFault(q)
           /\ req' = [req EXCEPT ![r] = Faulted(q, Call("head", "parent", key, <<>>, "err"))]
  /\ UNCHANGED <<store, cacheCalls, lastUsed, touched, writes, up>>

\* checkDirectoryExists, second call: a listing of one key under the prefix
\* finds a directory that has descendants but no marker
CheckParentList(r) ==
  /\ req[r].pc = "checkParentList"
  /\ LET q == req[r]
         key == DestParentPath(q.destS3SubPath)
         found == ListObjectsV2(q.bucket, key, <<>>, 1).Contents # <<>>
     IN \/ req' = [req EXCEPT ![r] =
             [Logged(q, Call("probe", "parent", key, <<>>, "ok"))
                EXCEPT !.pc = IF found THEN "headDest" ELSE "createParent"]]
        \/ /\ CanFault(q)
           /\ req' = [req EXCEPT ![r] = Faulted(q, Call("probe", "parent", key, <<>>, "err"))]
  /\ UNCHANGED <<store, cacheCalls, lastUsed, touched, writes, up>>

\* Faulty variant: a failure of the put of the parent marker is not caught
CreateParentDir_FailureThrows(r) ==
  /\ req[r].pc = "createParent"
  /\ LET q == req[r]
         key == DestParentPath(q.destS3SubPath)
     IN \/ /\ Applied(r, q.bucket, key, 0)
           /\ req' = [req EXCEPT ![r] =
                [Logged(q, Call("put", "parent", key, <<>>, "ok")) EXCEPT !.pc = "headDest"]]
        \/ /\ CanFault(q)
           /\ NotApplied
           /\ req' = [req EXCEPT ![r] = Faulted(q, Call("put", "parent", key, <<>>, "err"))]
  /\ UNCHANGED <<cacheCalls, lastUsed, touched, up>>

\* Faulty variant: the marker is put at the destination key, not at its parent
CreateParentDir_MarksDestination(r) ==
  /\ req[r].pc = "createParent"
  /\ LET q == req[r]
         key == q.destS3SubPath
     IN \/ /\ Applied(r, q.bucket, key, 0)
           /\ req' = [req EXCEPT ![r] =
                [Logged(q, Call("put", "parent", key, <<>>, "ok")) EXCEPT !.pc = "headDest"]]
        \/ /\ CanFault(q)
           /\ NotApplied
           /\ req' = [req EXCEPT ![r] =
                [Logged(q, Call("put", "parent", key, <<>>, "err"))
                   EXCEPT !.pc = "headDest", !.faults = @ + 1]]
  /\ UNCHANGED <<cacheCalls, lastUsed, touched, up>>

\* Lines 116-135: the missing parent gets a marker; a failure of the put is
\* logged and the request goes on
CreateParentDir(r) ==
  /\ req[r].pc = "createParent"
  /\ LET q == req[r]
         key == DestParentPath(q.destS3SubPath)
     IN \/ /\ Applied(r, q.bucket, key, 0)
           /\ req' = [req EXCEPT ![r] =
                [Logged(q, Call("put", "parent", key, <<>>, "ok")) EXCEPT !.pc = "headDest"]]
        \/ /\ CanFault(q)
           /\ NotApplied
           /\ req' = [req EXCEPT ![r] =
                [Logged(q, Call("put", "parent", key, <<>>, "err"))
                   EXCEPT !.pc = "headDest", !.faults = @ + 1]]
  /\ UNCHANGED <<cacheCalls, lastUsed, touched, up>>

\* Faulty variant: the overwrite check is dropped
AfterHeadDest_NoOverwriteCheck(q) ==
  IF q.isDirectory
    THEN [q EXCEPT !.pc = IF DepthOf(q) = "0" THEN "putMarker" ELSE "list"]
  ELSE [q EXCEPT !.pc = "headSource"]

\* Faulty variant: the Depth header is ignored, a directory is always enumerated
AfterHeadDest_IgnoreDepth(q) ==
  IF q.destExists /\ ~q.allowOverwrite
    THEN Respond(q, 412, "return")
  ELSE IF q.isDirectory
    THEN [q EXCEPT !.pc = "list"]
  ELSE [q EXCEPT !.pc = "headSource"]

\* Lines 156-165, 167, 262: the overwrite check and the choice of the branch
AfterHeadDest(q) ==
  IF q.destExists /\ ~q.allowOverwrite
    THEN Respond(q, 412, "return")
  ELSE IF q.isDirectory
    THEN [q EXCEPT !.pc = IF DepthOf(q) = "0" THEN "putMarker" ELSE "list"]
  ELSE [q EXCEPT !.pc = "headSource"]

\* Faulty variant: any failure of the head of the destination is taken for
\* an absent destination
HeadDest_ErrorIsAbsent(r) ==
  /\ req[r].pc = "headDest"
  /\ LET q == req[r]
         key == q.destS3SubPath
     IN \/ /\ Exists(q.bucket, key)
           /\ req' = [req EXCEPT ![r] =
                AfterHeadDest([Logged(q, Call("head", "dest", key, <<>>, "ok")) EXCEPT !.destExists = TRUE])]
        \/ /\ ~Exists(q.bucket, key)
           /\ req' = [req EXCEPT ![r] =
                AfterHeadDest(Logged(q, Call("head", "dest", key, <<>>, "404")))]
        \/ /\ CanFault(q)
           /\ req' = [req EXCEPT ![r] =
                AfterHeadDest(Logged([q EXCEPT !.faults = @ + 1], Call("head", "dest", key, <<>>, "err")))]
  /\ UNCHANGED <<store, cacheCalls, lastUsed, touched, writes, up>>

\* Lines 138-162: head of the destination key
HeadDest(r) ==
  /\ req[r].pc = "headDest"
  /\ LET q == req[r]
         key == q.destS3SubPath
     IN \/ /\ Exists(q.bucket, key)
           /\ req' = [req EXCEPT ![r] =
                AfterHeadDest([Logged(q, Call("head", "dest", key, <<>>, "ok")) EXCEPT !.destExists = TRUE])]
        \/ /\ ~Exists(q.bucket, key)
           /\ req' = [req EXCEPT ![r] =
                AfterHeadDest(Logged(q, Call("head", "dest", key, <<>>, "404")))]
        \/ /\ CanFault(q)
           /\ req' = [req EXCEPT ![r] = Faulted(q, Call("head", "dest", key, <<>>, "err"))]
  /\ UNCHANGED <<store, cacheCalls, lastUsed, touched, writes, up>>

\* Faulty variant: the Depth 0 branch answers without invalidating the cache
PutMarker_NoCacheInvalidation(r) ==
  /\ req[r].pc = "putMarker"
  /\ LET q == req[r]
         key == q.destS3SubPath
     IN \/ /\ Applied(r, q.bucket, key, 0)
           /\ req' = [req EXCEPT ![r] =
                [Logged(q, Call("put", "depth0", key, <<>>, "ok")) EXCEPT !.pc = "lastUsed"]]
        \/ /\ CanFault(q)
           /\ NotApplied
           /\ req' = [req EXCEPT ![r] = Faulted(q, Call("put", "depth0", key, <<>>, "err"))]
  /\ UNCHANGED <<cacheCalls, lastUsed, touched, up>>

\* Lines 167-177: Depth 0, the marker of the destination directory
PutMarker(r) ==
  /\ req[r].pc = "putMarker"
  /\ LET q == req[r]
         key == q.destS3SubPath
     IN \/ /\ Applied(r, q.bucket, key, 0)
           /\ req' = [req EXCEPT ![r] =
                [Logged(q, Call("put", "depth0", key, <<>>, "ok")) EXCEPT !.pc = "clearCache"]]
        \/ /\ CanFault(q)
           /\ NotApplied
           /\ req' = [req EXCEPT ![r] = Faulted(q, Call("put", "depth0", key, <<>>, "err"))]
  /\ UNCHANGED <<cacheCalls, lastUsed, touched, up>>

\* Lines 204-205, 235-236: after the last page
AfterListing(q) ==
  [q EXCEPT !.pc = IF Len(q.objects) = 0 THEN "headSourceDir" ELSE "copy"]

\* Faulty variant: the continuation token of a page is ignored
ListPage_StopsAfterFirstPage(r) ==
  /\ req[r].pc = "list"
  /\ LET q == req[r]
         listResponse == ListObjectsV2(q.bucket, q.sourceS3SubPath, q.continuationToken, PageSize)
         got == [Logged(q, Call("list", "enumerate", q.sourceS3SubPath, q.continuationToken, "ok"))
                   EXCEPT !.objects = @ \o listResponse.Contents,
                          !.continuationToken = listResponse.NextContinuationToken]
     IN \/ req' = [req EXCEPT ![r] =
             AfterListing(got)]
        \/ /\ CanFault(q)
           /\ req' = [req EXCEPT ![r] =
                Faulted(q, Call("list", "enumerate", q.sourceS3SubPath, q.continuationToken, "err"))]
  /\ UNCHANGED <<store, cacheCalls, lastUsed, touched, writes, up>>

\* Lines 187-202: one page of the enumeration of the source prefix
ListPage(r) ==
  /\ req[r].pc = "list"
  /\ LET q == req[r]
         listResponse == ListObjectsV2(q.bucket, q.sourceS3SubPath, q.continuationToken, PageSize)
         got == [Logged(q, Call("list", "enumerate", q.sourceS3SubPath, q.continuationToken, "ok"))
                   EXCEPT !.objects = @ \o listResponse.Contents,
                          !.continuationToken = listResponse.NextContinuationToken]
     IN \/ req' = [req EXCEPT ![r] =
             IF got.continuationToken # <<>> THEN got ELSE AfterListing(got)]
        \/ /\ CanFault(q)
           /\ req' = [req EXCEPT ![r] =
                Faulted(q, Call("list", "enumerate", q.sourceS3SubPath, q.continuationToken, "err"))]
  /\ UNCHANGED <<store, cacheCalls, lastUsed, touched, writes, up>>

\* Faulty variant: a source without marker is taken for an empty directory
HeadSourceDir_MissingIsEmpty(r) ==
  /\ req[r].pc = "headSourceDir"
  /\ LET q == req[r]
         key == q.sourceS3SubPath
     IN \/ /\ Exists(q.bucket, key)
           /\ req' = [req EXCEPT ![r] =
                [Logged(q, Call("head", "emptyDir", key, <<>>, "ok")) EXCEPT !.pc = "putEmptyDir"]]
        \/ /\ ~Exists(q.bucket, key)
           /\ req' = [req EXCEPT ![r] =
                [Logged(q, Call("head", "emptyDir", key, <<>>, "404")) EXCEPT !.pc = "putEmptyDir"]]
        \/ /\ CanFault(q)
           /\ req' = [req EXCEPT ![r] = Faulted(q, Call("head", "emptyDir", key, <<>>, "err"))]
  /\ UNCHANGED <<store, cacheCalls, lastUsed, touched, writes, up>>

\* Lines 207-214, 229-234: no object listed, head of the bare source key
HeadSourceDir(r) ==
  /\ req[r].pc = "headSourceDir"
  /\ LET q == req[r]
         key == q.sourceS3SubPath
     IN \/ /\ Exists(q.bucket, key)
           /\ req' = [req EXCEPT ![r] =
                [Logged(q, Call("head", "emptyDir", key, <<>>, "ok")) EXCEPT !.pc = "putEmptyDir"]]
        \/ /\ ~Exists(q.bucket, key)
           /\ req' = [req EXCEPT ![r] =
                Respond(Logged(q, Call("head", "emptyDir", key, <<>>, "404")), 404, "return")]
        \/ /\ CanFault(q)
           /\ req' = [req EXCEPT ![r] = Faulted(q, Call("head", "emptyDir", key, <<>>, "err"))]
  /\ UNCHANGED <<store, cacheCalls, lastUsed, touched, writes, up>>

\* Lines 216-225: the source is an empty directory, marker at the destination
PutEmptyDir(r) ==
  /\ req[r].pc = "putEmptyDir"
  /\ LET q == req[r]
         key == q.destS3SubPath
     IN \/ /\ Applied(r, q.bucket, key, 0)
           /\ req' = [req EXCEPT ![r] =
                [Logged(q, Call("put", "emptyDir", key, <<>>, "ok")) EXCEPT !.pc = "clearCache"]]
        \/ /\ CanFault(q)
           /\ NotApplied
           /\ req' = [req EXCEPT ![r] = Faulted(q, Call("put", "emptyDir", key, <<>>, "err"))]
  /\ UNCHANGED <<cacheCalls, lastUsed, touched, up>>

\* Lines 239-240: key of the copy of a listed object
NewKey(q, objectKey) ==
  q.destS3SubPath \o SubstringFrom(objectKey, Len(q.sourceS3SubPath))

\* Faulty variant: a copy that fails is skipped and the loop goes on
CopyNext_ContinueOnFailure(r) ==
  /\ req[r].pc = "copy"
  /\ LET q == req[r]
         from == q.objects[q.i]
         key == NewKey(q, from)
         next == IF q.i = Len(q.objects) THEN "propagate" ELSE "copy"
     IN \/ /\ Exists(q.bucket, from)
           /\ Applied(r, q.bucket, key, store[q.bucket][from])
           /\ req' = [req EXCEPT ![r] =
                [Logged(q, Call("copy", "loop", key, from, "ok"))
                   EXCEPT !.i = @ + 1, !.pc = next]]
        \/ /\ CanFault(q)
           /\ NotApplied
           /\ req' = [req EXCEPT ![r] =
                [Logged(q, Call("copy", "loop", key, from, "err"))
                   EXCEPT !.i = @ + 1, !.pc = next, !.faults = @ + 1]]
  /\ UNCHANGED <<cacheCalls, lastUsed, touched, up>>

\* Faulty variant: the copy loop does not move on to the next listed object
CopyNext_NeverAdvances(r) ==
  /\ req[r].pc = "copy"
  /\ LET q == req[r]
         from == q.objects[q.i]
         key == NewKey(q, from)
     IN \/ /\ Exists(q.bucket, from)
           /\ Applied(r, q.bucket, key, store[q.bucket][from])
           /\ req' = [req EXCEPT ![r] =
                [Logged(q, Call("copy", "loop", key, from, "ok"))
                   EXCEPT !.pc = IF q.i > Len(q.objects) THEN "propagate" ELSE "copy"]]
        \/ /\ ~Exists(q.bucket, from)
           /\ NotApplied
           /\ req' = [req EXCEPT ![r] = Throw(Logged(q, Call("copy", "loop", key, from, "404")), 404)]
        \/ /\ CanFault(q)
           /\ NotApplied
           /\ req' = [req EXCEPT ![r] = Faulted(q, Call("copy", "loop", key, from, "err"))]
  /\ UNCHANGED <<cacheCalls, lastUsed, touched, up>>

\* Lines 237-251: the copy of the next listed object; a copy that fails
\* throws out of the loop
CopyNext(r) ==
  /\ req[r].pc = "copy"
  /\ LET q == req[r]
         from == q.objects[q.i]
         key == NewKey(q, from)
     IN \/ /\ Exists(q.bucket, from)
           /\ Applied(r, q.bucket, key, store[q.bucket][from])
           /\ req' = [req EXCEPT ![r] =
                [Logged(q, Call("copy", "loop", key, from, "ok"))
                   EXCEPT !.i = @ + 1,
                          !.pc = IF q.i = Len(q.objects) THEN "propagate" ELSE "copy"]]
        \/ /\ ~Exists(q.bucket, from)
           /\ NotApplied
           /\ req' = [req EXCEPT ![r] = Throw(Logged(q, Call("copy", "loop", key, from, "404")), 404)]
        \/ /\ CanFault(q)
           /\ NotApplied
           /\ req' = [req EXCEPT ![r] = Faulted(q, Call("copy", "loop", key, from, "err"))]
  /\ UNCHANGED <<cacheCalls, lastUsed, touched, up>>

\* Faulty variant: a source file reported missing is copied all the same
HeadSourceFile_MissingProceeds(r) ==
  /\ req[r].pc = "headSource"
  /\ LET q == req[r]
         key == q.sourceS3SubPath
     IN \/ /\ Exists(q.bucket, key)
           /\ req' = [req EXCEPT ![r] =
                [Logged(q, Call("head", "file", key, <<>>, "ok")) EXCEPT !.pc = "copyFile"]]
        \/ /\ ~Exists(q.bucket, key)
           /\ req' = [req EXCEPT ![r] =
                [Logged(q, Call("head", "file", key, <<>>, "404")) EXCEPT !.pc = "copyFile"]]
        \/ /\ CanFault(q)
           /\ req' = [req EXCEPT ![r] = Faulted(q, Call("head", "file", key, <<>>, "err"))]
  /\ UNCHANGED <<store, cacheCalls, lastUsed, touched, writes, up>>

\* Lines 265-278: head of the source file
HeadSourceFile(r) ==
  /\ req[r].pc = "headSource"
  /\ LET q == req[r]
         key == q.sourceS3SubPath
     IN \/ /\ Exists(q.bucket, key)
           /\ req' = [req EXCEPT ![r] =
                [Logged(q, Call("head", "file", key, <<>>, "ok")) EXCEPT !.pc = "copyFile"]]
        \/ /\ ~Exists(q.bucket, key)
           /\ req' = [req EXCEPT ![r] =
                Respond(Logged(q, Call("head", "file", key, <<>>, "404")), 404, "return")]
        \/ /\ CanFault(q)
           /\ req' = [req EXCEPT ![r] = Faulted(q, Call("head", "file", key, <<>>, "err"))]
  /\ UNCHANGED <<store, cacheCalls, lastUsed, touched, writes, up>>

\* Faulty variant: the copy waits until no other request is between its
\* first storage call and its response, as if the destination were locked
CopyFile_WaitsForOthers(r) ==
  /\ req[r].pc = "copyFile"
  /\ \A o \in DOMAIN req \ {r} : req[o].pc \in {"start", "done"}
  /\ LET q == req[r]
         from == q.sourceS3SubPath
         key == q.destS3SubPath
     IN \/ /\ Exists(q.bucket, from)
           /\ Applied(r, q.bucket, key, store[q.bucket][from])
           /\ req' = [req EXCEPT ![r] =
                [Logged(q, Call("copy", "file", key, from, "ok")) EXCEPT !.pc = "propagate"]]
        \/ /\ ~Exists(q.bucket, from)
           /\ NotApplied
           /\ req' = [req EXCEPT ![r] = Throw(Logged(q, Call("copy", "file", key, from, "404")), 404)]
        \/ /\ CanFault(q)
           /\ NotApplied
           /\ req' = [req EXCEPT ![r] = Faulted(q, Call("copy", "file", key, from, "err"))]
  /\ UNCHANGED <<cacheCalls, lastUsed, touched, up>>

\* Lines 280-288: the copy of the file
CopyFile(r) ==
  /\ req[r].pc = "copyFile"
  /\ LET q == req[r]
         from == q.sourceS3SubPath
         key == q.destS3SubPath
     IN \/ /\ Exists(q.bucket, from)
           /\ Applied(r, q.bucket, key, store[q.bucket][from])
           /\ req' = [req EXCEPT ![r] =
                [Logged(q, Call("copy", "file", key, from, "ok")) EXCEPT !.pc = "propagate"]]
        \/ /\ ~Exists(q.bucket, from)
           /\ NotApplied
           /\ req' = [req EXCEPT ![r] = Throw(Logged(q, Call("copy", "file", key, from, "404")), 404)]
        \/ /\ CanFault(q)
           /\ NotApplied
           /\ req' = [req EXCEPT ![r] = Faulted(q, Call("copy", "file", key, from, "err"))]
  /\ UNCHANGED <<cacheCalls, lastUsed, touched, up>>

\* directory keys between a key and the root prefix, the root prefix excluded
AncestorChain(key, rootPrefix) ==
  { Substring(key, 0, n) : n \in { m \in (Len(rootPrefix) + 1)..(Len(key) - 1) : key[m] = "/" } }

\* Lines 253-256 and 290-293: updateParentDirectoriesModifiedTime refreshes
\* the modification marker of the ancestors of the destination key
Propagate(r) ==
  /\ req[r].pc = "propagate"
  /\ LET q == req[r]
     IN /\ touched' = touched \cup
             { <<q.bucket, k>> : k \in AncestorChain(q.destS3SubPath, q.rootPrefix) }
        /\ req' = [req EXCEPT ![r] =
             [Logged(q, Call("propagate", "after", q.destS3SubPath, <<>>, "ok")) EXCEPT !.pc = "clearCache"]]
  /\ UNCHANGED <<store, cacheCalls, lastUsed, writes, up>>

\* Lines 180, 228, 259, 296: clearCacheAfterWebDAVOperation for the destination
ClearCache(r) ==
  /\ req[r].pc = "clearCache"
  /\ LET q == req[r]
     IN /\ cacheCalls' = Append(cacheCalls,
             [path |-> q.destS3SubPath, isDirectory |-> q.isDirectory, mountId |-> q.mountId])
        /\ req' = [req EXCEPT ![r] =
             [Logged(q, Call("clearCache", "after", q.destS3SubPath, <<>>, "ok")) EXCEPT !.pc = "lastUsed"]]
  /\ UNCHANGED <<store, lastUsed, touched, writes, up>>

\* Lines 299-309: updateMountLastUsed and the 201 response
Finish(r) ==
  /\ req[r].pc = "lastUsed"
  /\ LET q == req[r]
     IN /\ lastUsed' = [lastUsed EXCEPT ![q.mountId] = @ + 1]
        /\ req' = [req EXCEPT ![r] =
             Respond(Logged(q, Call("lastUsed", "after", <<>>, <<>>, "ok")), 201, "return")]
  /\ UNCHANGED <<store, cacheCalls, touched, writes, up>>

Next ==
  \/ \E r \in DOMAIN req : Resolve(r)
  \/ \E r \in DOMAIN req : CheckParentHead(r)
  \/ \E r \in DOMAIN req : CheckParentList(r)
  \/ \E r \in DOMAIN req : CreateParentDir(r)
  \/ \E r \in DOMAIN req : HeadDest(r)
  \/ \E r \in DOMAIN req : PutMarker(r)
  \/ \E r \in DOMAIN req : ListPage(r)
  \/ \E r \in DOMAIN req : HeadSourceDir(r)
  \/ \E r \in DOMAIN req : PutEmptyDir(r)
  \/ \E r \in DOMAIN req : CopyNext(r)
  \/ \E r \in DOMAIN req : HeadSourceFile(r)
  \/ \E r \in DOMAIN req : CopyFile(r)
  \/ \E r \in DOMAIN req : Propagate(r)
  \/ \E r \in DOMAIN req : ClearCache(r)
  \/ \E r \in DOMAIN req : Finish(r)

\* Lines 111-309: the steps of one request from its first storage call to
\* its response; between two awaits the steps of other requests may interleave
Proceed(r) ==
  \/ CheckParentHead(r)
  \/ CheckParentList(r)
  \/ CreateParentDir(r)
  \/ HeadDest(r)
  \/ PutMarker(r)
  \/ ListPage(r)
  \/ HeadSourceDir(r)
  \/ PutEmptyDir(r)
  \/ CopyNext(r)
  \/ HeadSourceFile(r)
  \/ CopyFile(r)
  \/ Propagate(r)
  \/ ClearCache(r)
  \/ Finish(r)

\* Lines 15-314: the steps of one request
Handle(r) == Resolve(r) \/ Proceed(r)

Spec == Init /\ [][Next]_vars

(* ------------------ direct upload of the browser client --------------- *)

\* directUploadFile (fileService.js): presign, PUT of the file to the
\* presigned URL, commit; on a failure the file record is deleted. Every
\* await is one step. up holds the position of the upload, the auth store as
\* the catch block reads it, the callbacks given by the caller, fileId, the
\* error caught, what was thrown or returned, and the requests and their
\* outcomes in order.

\* a value a condition takes for false: null, undefined, the empty string
Falsy(v) == v \in {"null", "undefined", ""}

Event(op, res, arg) == [op |-> op, res |-> res, arg |-> arg]

\* what post("s3/presign") may do: throw (network or HTTP error, with a
\* message), or resolve with a response that reports no success (with or
\* without message), success without data, or success with data that do or
\* do not carry a file_id
PresignOutcomes ==
  { [threw |-> TRUE, message |-> m, success |-> FALSE, data |-> "undefined", file_id |-> "undefined"] :
      m \in {"slugTaken", "network"} }
  \cup
  { [threw |-> FALSE, message |-> m, success |-> FALSE, data |-> "undefined", file_id |-> "undefined"] :
      m \in {"", "slugTaken", "storage", "other"} }
  \cup
  { [threw |-> FALSE, message |-> "", success |-> TRUE, data |-> d, file_id |-> "undefined"] :
      d \in {"null", "undefined"} }
  \cup
  { [threw |-> FALSE, message |-> "", success |-> TRUE, data |-> "data", file_id |-> f] :
      f \in {"f1", "undefined", ""} }

\* getUploadPresignedUrl: the response of the post, or its error wrapped
getUploadPresignedUrl(outcome) ==
  IF outcome.threw
    THEN [threw |-> TRUE,
          error |-> IF outcome.message = "slugTaken"
                      THEN <<"slugTaken">>
                      ELSE <<"presignFailed", outcome.message>>,
          value |-> outcome]
    ELSE [threw |-> FALSE, error |-> <<>>, value |-> outcome]

\* Lines 141-163: the error thrown for a response without success or data;
\* <<>> when the response is good
PresignError(presignedData) ==
  IF ~presignedData.success
    THEN IF ~Falsy(presignedData.message)
           THEN IF presignedData.message = "slugTaken" THEN <<"slugTaken">>
                ELSE IF presignedData.message = "storage" THEN <<"storage", presignedData.message>>
                ELSE <<presignedData.message>>
           ELSE <<"presignFailed">>
  ELSE IF Falsy(presignedData.data) THEN <<"presignNoData">>
  ELSE <<>>

\* statuses of the response to the PUT
Statuses == {199, 200, 204, 299, 300, 403, 500}

\* what ends the XMLHttpRequest: load with a status, error, or abort
PutOutcomes ==
  { [event |-> "load", status |-> st] : st \in Statuses }
  \cup { [event |-> "error", status |-> 0], [event |-> "abort", status |-> 0] }

\* Lines 200-226: how the promise of the PUT settles; <<>> when it resolves
PutError(outcome) ==
  IF outcome.event = "load"
    THEN IF outcome.status >= 200 /\ outcome.status < 300
           THEN <<>>
           ELSE <<"uploadFailed", outcome.status>>
  ELSE IF outcome.event = "error" THEN <<"networkError">>
  ELSE <<"cancelled">>

\* Line 297: authStore.isAdmin || (authStore.authType === "apikey" && authStore.apiKey)
MayDelete(u) == u.isAdmin \/ (u.authType = "apikey" /\ ~Falsy(u.apiKey))

Uploads ==
  { [pc |-> "start", isAdmin |-> a, authType |-> t, apiKey |-> k,
     onFileIdReady |-> f, onXhrReady |-> x,
     fileId |-> "null", error |-> <<>>, thrown |-> <<>>, result |-> "none", log |-> <<>>] :
      a \in BOOLEAN, t \in {"admin", "apikey", "none"}, k \in {"null", "k"},
      f \in {"absent", "ok", "throws"}, x \in {"absent", "ok", "throws"} }

\* the variables of the COPY handler do not take part in an upload
UploadInit ==
  /\ up \in Uploads
  /\ store = [b \in Buckets |-> EmptyBucket]
  /\ req = <<>>
  /\ cacheCalls = <<>>
  /\ lastUsed = [m \in {x.id : x \in Mounts} |-> 0]
  /\ touched = {}
  /\ writes = <<>>

UploadFrame == UNCHANGED <<store, req, cacheCalls, lastUsed, touched, writes>>

Happened(u, event) == [u EXCEPT !.log = Append(@, event)]

\* Faulty variant: the catch block deletes the record whatever fileId holds
Caught_NoFileIdGuard(u, error) ==
  [u EXCEPT !.error = error, !.pc = "import"]

\* Lines 285-289 and 307-309: the catch block; without a fileId it rethrows
\* at once, with one it first loads the auth store
Caught(u, error) ==
  IF Falsy(u.fileId)
    THEN [u EXCEPT !.error = error, !.thrown = error, !.pc = "thrown"]
    ELSE [u EXCEPT !.error = error, !.pc = "import"]

\* Lines 121-139: step 1, the presign request is sent
Start ==
  /\ up.pc = "start"
  /\ up' = [Happened(up, Event("presign", "sent", "null")) EXCEPT !.pc = "presign"]
  /\ UploadFrame

\* Lines 165-238: the response is good: fileId is kept, the caller is told
\* (onFileIdReady, for a fileId that is not falsy), the XMLHttpRequest is
\* created, handed to the caller (onXhrReady) and sent; a callback that
\* throws leads to the catch block
SendPut(u, file_id) ==
  LET kept == [u EXCEPT !.fileId = file_id]
      called == IF u.onFileIdReady # "absent" /\ ~Falsy(file_id)
                  THEN Happened(kept, Event("onFileIdReady", u.onFileIdReady, file_id))
                  ELSE kept
      handed == IF u.onXhrReady # "absent"
                  THEN Happened(called, Event("onXhrReady", u.onXhrReady, "xhr"))
                  ELSE called
  IN IF u.onFileIdReady = "throws" /\ ~Falsy(file_id)
       THEN Caught(called, <<"onFileIdReady">>)
     ELSE IF u.onXhrReady = "throws"
       THEN Caught(handed, <<"onXhrReady">>)
     ELSE [Happened(handed, Event("put", "sent", file_id)) EXCEPT !.pc = "put"]

\* Lines 125-238: the presign request is answered
PresignDone ==
  /\ up.pc = "presign"
  /\ \E outcome \in PresignOutcomes :
       LET got == getUploadPresignedUrl(outcome)
           told == Happened(up, Event("presignDone",
                     IF outcome.threw THEN "throws" ELSE "resolves", outcome))
       IN up' = IF got.threw THEN Caught(told, got.error)
                ELSE IF PresignError(got.value) # <<>> THEN Caught(told, PresignError(got.value))
                ELSE SendPut(told, got.value.file_id)
  /\ UploadFrame

\* Faulty variant: the load handler resolves whatever the status
PutDone_AnyLoadResolves ==
  /\ up.pc = "put"
  /\ \E outcome \in PutOutcomes :
       LET told == Happened(up, Event("putDone", outcome.event, outcome.status))
       IN up' = IF outcome.event = "load"
                  THEN [Happened(told, Event("commit", "sent", up.fileId)) EXCEPT !.pc = "commit"]
                  ELSE Caught(told, PutError(outcome))
  /\ UploadFrame

\* Lines 200-265: the XMLHttpRequest ends; after a resolved promise the
\* commit is sent
PutDone ==
  /\ up.pc = "put"
  /\ \E outcome \in PutOutcomes :
       LET told == Happened(up, Event("putDone", outcome.event, outcome.status))
       IN up' = IF PutError(outcome) = <<>>
                  THEN [Happened(told, Event("commit", "sent", up.fileId)) EXCEPT !.pc = "commit"]
                  ELSE Caught(told, PutError(outcome))
  /\ UploadFrame

\* Lines 241-265 and 284: the commit is answered; its response is returned
\* as it is
CommitDone ==
  /\ up.pc = "commit"
  /\ \/ \E completeData \in {"success", "noSuccess"} :
          up' = [Happened(up, Event("commitDone", "ok", completeData))
                   EXCEPT !.pc = "returned", !.result = completeData]
     \/ up' = Caught(Happened(up, Event("commitDone", "throws", "null")), <<"commitFailed">>)
  /\ UploadFrame

\* Lines 290-302: the auth store is loaded and read; the deletion is sent
\* for an admin or a holder of an API key, otherwise the error is rethrown
ImportDone ==
  /\ up.pc = "import"
  /\ up' = IF MayDelete(up)
             THEN [Happened(up, Event("delete", "sent", up.fileId)) EXCEPT !.pc = "delete"]
             ELSE [up EXCEPT !.thrown = up.error, !.pc = "thrown"]
  /\ UploadFrame

\* Lines 298-309: the deletion is answered or fails; the failure is logged
\* and the error caught first is rethrown
DeleteDone ==
  /\ up.pc = "delete"
  /\ \E res \in {"ok", "throws"} :
       up' = [Happened(up, Event("deleteDone", res, up.fileId))
                EXCEPT !.thrown = up.error, !.pc = "thrown"]
  /\ UploadFrame

UploadNext ==
  \/ Start
  \/ PresignDone
  \/ PutDone
  \/ CommitDone
  \/ ImportDone
  \/ DeleteDone

UploadSpec == UploadInit /\ [][UploadNext]_vars

(* ------------------------------- properties --------------------------- *)

\* the request is the only one in flight
Alone == DOMAIN req = {1}

\* the request got past validation and holds its keys
HasKeys(q) == q.bucket # "none"

Done(q) == q.pc = "done"

\* positions of the trace of q whose call satisfies P
Calls(q, P(_)) == { i \in 1..Len(q.log) : P(q.log[i]) }

IsWrite(c) == c.op \in {"put", "copy", "delete"}

IsStorageCall(c) == c.op \in {"head", "put", "list", "probe", "copy", "delete"}

IsListCall(c) == c.op \in {"list", "probe"}

IsFailed(c) == c.res = "err"

\* the objects at the keys that start with a prefix are those of the snapshot
SameUnder(b, prefix, snap) ==
  \A k \in (DOMAIN store[b]) \cup (DOMAIN snap[b]) :
    StartsWith(k, prefix) =>
      /\ k \in DOMAIN store[b]
      /\ k \in DOMAIN snap[b]
      /\ store[b][k] = snap[b][k]

\* Overwrite: F and an object at the destination key when the request arrived
C1_Case(q) ==
  /\ HasKeys(q)
  /\ q.overwrite = "F"
  /\ q.destS3SubPath \in DOMAIN q.snap[q.bucket]

\* C1: a COPY with Overwrite: F whose destination key holds an object when
\* the request arrives issues no put, copy or delete at the destination key or
\* below it, leaves the objects there as they were, and answers 412 (a storage
\* call that fails before the check sends it to the catch block instead).
C1_OverwriteFLeavesDestination ==
  \A r \in DOMAIN req :
    LET q == req[r]
        IsAtDest(c) == IsWrite(c) /\ StartsWith(c.key, q.destS3SubPath)
    IN C1_Case(q) =>
         /\ Calls(q, IsAtDest) = {}
         /\ Alone => SameUnder(q.bucket, q.destS3SubPath, q.snap)
         /\ Done(q) => \/ q.status = 412 /\ q.via = "return"
                       \/ q.via = "catch" /\ Calls(q, IsFailed) # {}

C1_Witness ==
  \E r \in DOMAIN req :
    /\ C1_Case(req[r])
    /\ Done(req[r])
    /\ req[r].status = 412
    /\ req[r].isDirectory
    /\ \E k \in DOMAIN store[req[r].bucket] :
         k # req[r].destS3SubPath /\ StartsWith(k, req[r].destS3SubPath)

\* a recursive directory COPY that answered 201
C2_Case(q) ==
  /\ HasKeys(q)
  /\ Done(q)
  /\ q.status = 201
  /\ q.isDirectory
  /\ DepthOf(q) = "infinity"

\* C2: after a recursive directory COPY that answers 201, every listed
\* object of the source has a copy at destination prefix + relative key,
\* with the content the source object had when the request arrived.
C2_RecursiveCopyReproducesSource ==
  \A r \in DOMAIN req :
    LET q == req[r]
    IN (Alone /\ C2_Case(q)) =>
         \A i \in 1..Len(q.objects) :
           LET k == q.objects[i]
           IN k \in DOMAIN q.snap[q.bucket] =>
                /\ NewKey(q, k) \in DOMAIN store[q.bucket]
                /\ store[q.bucket][NewKey(q, k)] = q.snap[q.bucket][k]

\* the key is the source key or, for a directory, lies below the source prefix
AtSource(q, key) ==
  IF q.isDirectory THEN StartsWith(key, q.sourceS3SubPath) ELSE key = q.sourceS3SubPath

\* C3: no COPY issues a delete, and none issues a put or copy at the source
\* key or below the source prefix; the objects of the source are after the
\* request what they were before it.
C3_SourceNeverModified ==
  \A r \in DOMAIN req :
    LET q == req[r]
        IsAtSource(c) == IsWrite(c) /\ AtSource(q, c.key)
    IN HasKeys(q) =>
         /\ Calls(q, IsAtSource) = {}
         /\ Alone =>
              \A k \in (DOMAIN store[q.bucket]) \cup (DOMAIN q.snap[q.bucket]) :
                AtSource(q, k) =>
                  /\ k \in DOMAIN store[q.bucket]
                  /\ k \in DOMAIN q.snap[q.bucket]
                  /\ store[q.bucket][k] = q.snap[q.bucket][k]

\* a Depth: 0 COPY of a directory that answered 201
C4_Case(q) ==
  /\ HasKeys(q)
  /\ Done(q)
  /\ q.status = 201
  /\ q.isDirectory
  /\ DepthOf(q) = "0"

\* what C4 says of the objects: every write of the request is a put at the
\* destination key, the marker there is empty, nothing else below the
\* destination was created or changed
C4_OnlyMarker(q) ==
  LET IsCopy(c) == c.op = "copy"
      IsElsewhere(c) == IsWrite(c) /\ ~(c.op = "put" /\ c.key = q.destS3SubPath)
  IN /\ Calls(q, IsCopy) = {}
     /\ Calls(q, IsElsewhere) = {}
     /\ Alone =>
          /\ q.destS3SubPath \in DOMAIN store[q.bucket]
          /\ store[q.bucket][q.destS3SubPath] = 0
          /\ \A k \in (DOMAIN store[q.bucket]) \cup (DOMAIN q.snap[q.bucket]) :
               (StartsWith(k, q.destS3SubPath) /\ k # q.destS3SubPath) =>
                 /\ k \in DOMAIN store[q.bucket]
                 /\ k \in DOMAIN q.snap[q.bucket]
                 /\ store[q.bucket][k] = q.snap[q.bucket][k]

\* C4 as stated: a Depth: 0 COPY of a directory that answers 201 issues no
\* list call and no per-object copy, and writes only the empty marker at the
\* destination key.
C4_Depth0NoListCall ==
  \A r \in DOMAIN req :
    C4_Case(req[r]) =>
      /\ Calls(req[r], IsListCall) = {}
      /\ C4_OnlyMarker(req[r])

\* C4 amended: a Depth: 0 COPY of a directory that answers 201 does not
\* enumerate the source and issues no per-object copy; the only list call it
\* may issue is the one-key probe of checkDirectoryExists on the parent
\* directory of the destination, at most once; it writes only the empty
\* marker at the destination key.
C4_Depth0OnlyMarker ==
  \A r \in DOMAIN req :
    LET q == req[r]
        IsEnumeration(c) == c.op = "list"
        IsProbe(c) == c.op = "probe"
        IsOtherProbe(c) == c.op = "probe" /\ c.key # DestParentPath(q.destS3SubPath)
    IN C4_Case(q) =>
         /\ Calls(q, IsEnumeration) = {}
         /\ Cardinality(Calls(q, IsProbe)) <= 1
         /\ Calls(q, IsOtherProbe) = {}
         /\ C4_OnlyMarker(q)

C4_Witness ==
  \E r \in DOMAIN req :
    LET q == req[r]
        IsProbe(c) == c.op = "probe"
    IN /\ C4_Case(q)
       /\ Alone
       /\ Calls(q, IsProbe) # {}
       /\ \E k \in DOMAIN store[q.bucket] :
            k # q.sourceS3SubPath /\ StartsWith(k, q.sourceS3SubPath)

\* the head of the bare source key after an enumeration without objects
IsEmptyDirHead(c) == c.op = "head" /\ c.at = "emptyDir"

\* In a recursive directory COPY whose enumeration yields no object, a
\* head of the bare source key that succeeds is followed by the put of an
\* empty marker at the destination key and, that put done, by 201; a head
\* that reports 404 ends the request with 404 and no copy.
C5_EmptyDirectoryStates ==
  \A r \in DOMAIN req :
    LET q == req[r]
        IsCopy(c) == c.op = "copy"
    IN \A i \in Calls(q, IsEmptyDirHead) :
         /\ q.isDirectory /\ DepthOf(q) = "infinity" /\ Len(q.objects) = 0
         /\ q.log[i].key = q.sourceS3SubPath
         /\ Calls(q, IsCopy) = {}
         /\ q.log[i].res = "ok" =>
              /\ q.pc # "putEmptyDir" =>
                   /\ Len(q.log) > i
                   /\ q.log[i + 1].op = "put"
                   /\ q.log[i + 1].key = q.destS3SubPath
              /\ (Len(q.log) > i /\ q.log[i + 1].res = "ok") =>
                   q.destS3SubPath \in DOMAIN store[q.bucket]
              /\ (Done(q) /\ q.log[i + 1].res = "ok") =>
                   q.status = 201 /\ q.via = "return"
         /\ q.log[i].res = "404" =>
              Done(q) /\ q.status = 404 /\ q.via = "return" /\ Len(q.log) = i

\* the put of the empty-directory branch writes a zero-length object
C5_MarkerIsEmpty ==
  \A r \in DOMAIN req :
    (req[r].pc = "putEmptyDir" /\ req'[r].pc = "clearCache") =>
      /\ req[r].destS3SubPath \in DOMAIN store'[req[r].bucket]
      /\ store'[req[r].bucket][req[r].destS3SubPath] = 0

\* C5: the empty-directory branch of a recursive COPY, as a property of the
\* states (head, put, response) and of the step that puts the marker
C5_EmptyDirectory == [](C5_EmptyDirectoryStates) /\ [][C5_MarkerIsEmpty]_vars

C5_Witness ==
  \E r \in DOMAIN req :
    LET q == req[r]
    IN /\ Done(q)
       /\ q.status = 201
       /\ \E i \in Calls(q, IsEmptyDirHead) :
            q.log[i].res = "ok" /\ q.log[i + 1].op = "put" /\ q.log[i + 1].res = "ok"

\* the Destination header resolves to the path of the request
SamePath(q) == parseDestinationPath(q.destination) = q.path

\* no storage call, no cache invalidation, no last-used refresh
Untouched(q) ==
  LET IsEffect(c) == IsStorageCall(c) \/ c.op \in {"clearCache", "lastUsed", "propagate"}
  IN /\ Calls(q, IsEffect) = {}
     /\ Alone => /\ store = q.snap
                 /\ cacheCalls = <<>>
                 /\ \A m \in DOMAIN lastUsed : lastUsed[m] = 0

\* C6 as stated: a COPY whose Destination resolves to its own source path
\* answers 400 and makes no storage call, no cache invalidation and no
\* last-used refresh.
C6_SamePathIs400 ==
  \A r \in DOMAIN req :
    LET q == req[r]
    IN (q.pc # "start" /\ SamePath(q)) =>
         /\ Done(q)
         /\ q.status = 400
         /\ Untouched(q)

\* C6 amended: such a COPY answers 400 when its source path resolves to a
\* mount the principal may operate on (or to the root); when the resolution
\* of the source fails, the status of that failure is answered, the
\* comparison of the paths not being reached. In both cases there is no
\* storage call, no cache invalidation and no last-used refresh.
C6_SamePathRejected ==
  \A r \in DOMAIN req :
    LET q == req[r]
        src == findMountPointByPath(q.path)
    IN (q.pc # "start" /\ SamePath(q)) =>
         /\ Done(q)
         /\ q.via = "return"
         /\ q.status = IF src.error # 0 THEN src.error ELSE 400
         /\ Untouched(q)

C6_Witness ==
  \E r \in DOMAIN req :
    /\ Done(req[r])
    /\ SamePath(req[r])
    /\ req[r].status = 400
    /\ store["b1"] # EmptyBucket

\* source and destination resolve to two different mounts
CrossMount(q) ==
  LET destPath == parseDestinationPath(q.destination)
      src == findMountPointByPath(q.path)
      dst == findMountPointByPath(destPath)
  IN /\ destPath # Null
     /\ src.mount # NoMount
     /\ dst.mount # NoMount
     /\ src.mount.id # dst.mount.id

\* C7: a COPY whose source and destination resolve to two different mounts
\* answers 502 whatever its Depth and Overwrite headers and whatever the
\* buckets hold, without a storage call, without loading the backend
\* configuration and without a cache invalidation.
C7_CrossMountIs502 ==
  \A r \in DOMAIN req :
    LET q == req[r]
        IsConfigLoad(c) == c.op = "loadConfig"
    IN (q.pc # "start" /\ CrossMount(q)) =>
         /\ Done(q)
         /\ q.status = 502
         /\ q.via = "return"
         /\ Calls(q, IsConfigLoad) = {}
         /\ Untouched(q)

C7_Witness ==
  \E r \in DOMAIN req :
    /\ CrossMount(req[r])
    /\ Done(req[r])
    /\ req[r].status = 502
    /\ req[r].depth = "1"
    /\ req[r].overwrite = "F"
    /\ store["b2"] # EmptyBucket

\* a put or copy of the transfer itself (not the parent directory's marker)
IsTransferWrite(c) == IsWrite(c) /\ c.at \in {"depth0", "emptyDir", "loop", "file"}

IsLoopCopy(c) == c.op = "copy" /\ c.at = "loop"

IsFailedLoopCopy(c) == IsLoopCopy(c) /\ c.res # "ok"

\* C8: when the k-th copy of a recursive directory COPY fails, the k-1
\* objects copied before it stay at the destination, the failed copy is the
\* last call of the request (no rollback, no further copy), and the response
\* comes from the catch block and is not 201.
C8_PartialFailureNoRollback ==
  \A r \in DOMAIN req :
    LET q == req[r]
        k == q.i
    IN \A i \in Calls(q, IsFailedLoopCopy) :
         /\ i = Len(q.log)
         /\ Done(q)
         /\ q.via = "catch"
         /\ q.status # 201
         /\ k \in 1..Len(q.objects)
         /\ q.log[i].from = q.objects[k]
         /\ Cardinality(Calls(q, IsLoopCopy)) = k
         /\ \A j \in 1..(k - 1) :
              /\ \E n \in Calls(q, IsLoopCopy) :
                   /\ q.log[n].res = "ok"
                   /\ q.log[n].from = q.objects[j]
                   /\ q.log[n].key = NewKey(q, q.objects[j])
              /\ NewKey(q, q.objects[j]) \in DOMAIN store[q.bucket]

C8_Witness ==
  \E r \in DOMAIN req :
    LET q == req[r]
    IN /\ Calls(q, IsFailedLoopCopy) # {}
       /\ q.i = 2
       /\ Len(q.objects) = 3
       /\ NewKey(q, q.objects[1]) \in DOMAIN store[q.bucket]
       /\ NewKey(q, q.objects[1]) \notin DOMAIN q.snap[q.bucket]
       /\ NewKey(q, q.objects[3]) \notin DOMAIN store[q.bucket]

IsPropagate(c) == c.op = "propagate"

IsClearCache(c) == c.op = "clearCache"

\* C9: every COPY that answers 201 has invoked the ancestor timestamp
\* propagation for the destination key exactly once, after the last put or
\* copy of the transfer.
C9_PropagationOncePerSuccess ==
  \A r \in DOMAIN req :
    LET q == req[r]
    IN (Done(q) /\ q.status = 201) =>
         /\ Cardinality(Calls(q, IsPropagate)) = 1
         /\ \A i \in Calls(q, IsPropagate) :
              /\ q.log[i].key = q.destS3SubPath
              /\ \A w \in Calls(q, IsTransferWrite) : w < i

\* C10: a COPY that answers 201 has invalidated the cache for the
\* destination key exactly once, after the last put or copy of the transfer
\* and before the response; a COPY rejected with 400, 403, 404, 412 or 502
\* has not invalidated it.
C10_CacheInvalidatedOnce ==
  \A r \in DOMAIN req :
    LET q == req[r]
    IN /\ (Done(q) /\ q.status = 201) =>
            /\ Cardinality(Calls(q, IsClearCache)) = 1
            /\ Calls(q, IsTransferWrite) # {}
            /\ \A i \in Calls(q, IsClearCache) :
                 /\ q.log[i].key = q.destS3SubPath
                 /\ i < Len(q.log)
                 /\ \A w \in Calls(q, IsTransferWrite) : w < i
                 /\ \E n \in 1..Len(cacheCalls) :
                      /\ cacheCalls[n].path = q.destS3SubPath
                      /\ cacheCalls[n].mountId = q.mountId
                      /\ cacheCalls[n].isDirectory = q.isDirectory
            /\ Alone => Len(cacheCalls) = 1
       /\ (Done(q) /\ q.status \in {400, 403, 404, 412, 502}) =>
            /\ Calls(q, IsClearCache) = {}
            /\ Alone => cacheCalls = <<>>

C10_Witness ==
  \E r \in DOMAIN req :
    LET q == req[r]
    IN /\ Done(q)
       /\ q.status = 201
       /\ q.isDirectory
       /\ Cardinality(Calls(q, IsLoopCopy)) = 3
       /\ Len(cacheCalls) = 1

\* the write is the last one the store applied to its key
IsLastWrite(i) ==
  \A j \in (i + 1)..Len(writes) :
    ~(writes[j].bucket = writes[i].bucket /\ writes[j].key = writes[i].key)

\* the request has issued a put or copy of its transfer
HasWritten(q) == Calls(q, IsTransferWrite) # {}

\* C11: requests handled at the same time take no lock: a request that has
\* begun its storage calls and has not answered can always take its next
\* step, whatever the other request is doing; every key written holds the content of the write the store applied
\* last to it; a request that reached its transfer and met no storage failure
\* answers 201, whatever the other request wrote to the same key.
C11_LastWriteWins ==
  /\ \A r \in DOMAIN req :
       (~Alone /\ req[r].pc \notin {"start", "done"}) => ENABLED Proceed(r)
  /\ \A i \in 1..Len(writes) :
       IsLastWrite(i) =>
         /\ writes[i].key \in DOMAIN store[writes[i].bucket]
         /\ store[writes[i].bucket][writes[i].key] = writes[i].content
  /\ \A r \in DOMAIN req :
       (Done(req[r]) /\ HasWritten(req[r]) /\ Calls(req[r], IsFailed) = {}) =>
         req[r].status = 201

\* two file copies wrote different contents to one key and both answered 201
C11_Witness ==
  /\ DOMAIN req = {1, 2}
  /\ \A r \in DOMAIN req : Done(req[r]) /\ req[r].status = 201
  /\ \E i, j \in 1..Len(writes) :
       /\ i < j
       /\ writes[i].r # writes[j].r
       /\ writes[i].key = writes[j].key
       /\ writes[i].bucket = writes[j].bucket
       /\ writes[i].content # writes[j].content
       /\ IsLastWrite(j)
       /\ store[writes[j].bucket][writes[j].key] = writes[j].content

\* the request names no destination, or one that cannot be parsed
NoDestination(q) == parseDestinationPath(q.destination) = Null

\* the destination of the request resolves to the virtual root
RootDestination(q) ==
  /\ ~NoDestination(q)
  /\ findMountPointByPath(parseDestinationPath(q.destination)).isRoot

\* rejected by a return, before any storage call and before the backend
\* configuration is loaded
RejectedEarly(q, status) ==
  LET IsConfigLoad(c) == c.op = "loadConfig"
  IN /\ Done(q)
     /\ q.via = "return"
     /\ q.status = status
     /\ Calls(q, IsConfigLoad) = {}
     /\ Untouched(q)

\* C12 as stated: a COPY with no (or unparseable) Destination header answers
\* 400 and a COPY whose destination resolves to the virtual root answers 403,
\* both before any storage call and before the configuration is loaded.
C12_NoDestination400Root403 ==
  \A r \in DOMAIN req :
    LET q == req[r]
    IN /\ (q.pc # "start" /\ NoDestination(q)) => RejectedEarly(q, 400)
       /\ (q.pc # "start" /\ RootDestination(q)) => RejectedEarly(q, 403)

\* C12 amended: when the source path resolves (to a mount the principal may
\* operate on, or to the root), a COPY with no or an unparseable Destination
\* answers 400, and a COPY whose destination resolves to the virtual root
\* answers 403 unless the source is the root too (same path: 400); when the
\* resolution of the source fails its status (404 or 403) is answered. In
\* every one of these cases the request is rejected before any storage call
\* and before the configuration is loaded.
C12_DestinationRejected ==
  \A r \in DOMAIN req :
    LET q == req[r]
        src == findMountPointByPath(q.path)
    IN /\ (q.pc # "start" /\ NoDestination(q)) =>
            RejectedEarly(q, IF src.error # 0 THEN src.error ELSE 400)
       /\ (q.pc # "start" /\ RootDestination(q)) =>
            RejectedEarly(q, IF src.error # 0 THEN src.error
                             ELSE IF SamePath(q) THEN 400 ELSE 403)

\* a COPY from a mounted path to the virtual root was answered 403 over a
\* bucket that holds objects
C12_Witness ==
  \E r \in DOMAIN req :
    /\ Done(req[r])
    /\ RootDestination(req[r])
    /\ findMountPointByPath(req[r].path).mount # NoMount
    /\ req[r].status = 403
    /\ store["b1"] # EmptyBucket

\* source and destination are two paths of one mount the principal may use,
\* so that none of the checks made before the Depth header is read rejects
SameMount(q) ==
  LET destPath == parseDestinationPath(q.destination)
      src == findMountPointByPath(q.path)
      dst == findMountPointByPath(destPath)
  IN /\ destPath # Null
     /\ destPath # q.path
     /\ src.mount # NoMount
     /\ dst.mount # NoMount
     /\ src.mount.id = dst.mount.id

\* the request was handled as a recursive one: it never took the Depth 0
\* branch, and if it is a directory COPY that answered 201 it enumerated
\* the source
HandledAsInfinity(q) ==
  LET IsDepth0(c) == c.at = "depth0"
      IsEnumeration(c) == c.op = "list" /\ c.at = "enumerate"
  IN /\ Calls(q, IsDepth0) = {}
     /\ (Done(q) /\ q.status = 201 /\ q.isDirectory) => Calls(q, IsEnumeration) # {}

\* C13: a COPY that reaches the Depth check (source and destination are two
\* paths of one mount) and whose Depth header has a value other than "0" or
\* "infinity" answers 400 and issues no storage call; a COPY without a Depth
\* header is handled as Depth infinity.
C13_InvalidDepthIs400 ==
  \A r \in DOMAIN req :
    LET q == req[r]
    IN /\ (q.pc # "start" /\ SameMount(q) /\ q.depth \notin {"none", "0", "infinity"}) =>
            /\ Done(q)
            /\ q.status = 400
            /\ Calls(q, IsStorageCall) = {}
       /\ (q.pc # "start" /\ q.depth = "none") => HandledAsInfinity(q)

\* a COPY of a file that has reached its storage calls
C14_Case(q) == HasKeys(q) /\ ~q.isDirectory

\* what C14 says of the head and the copy: every copy of the request goes
\* from the source key to the destination key and follows a successful head
\* of the source key; there is at most one, and exactly one when the request
\* answers 201; after a head that reports 404 the request answers 404 with
\* no copy; the request puts nothing but the marker of the destination's
\* parent
C14_HeadThenOneCopy(q) ==
  LET IsCopy(c) == c.op = "copy"
      IsSourceHead(c) == c.op = "head" /\ c.at = "file"
      IsMissing(c) == IsSourceHead(c) /\ c.res = "404"
      IsOtherPut(c) == c.op = "put" /\ c.at # "parent"
  IN /\ Cardinality(Calls(q, IsCopy)) <= 1
     /\ \A i \in Calls(q, IsCopy) :
          /\ q.log[i].key = q.destS3SubPath
          /\ q.log[i].from = q.sourceS3SubPath
          /\ i > 1
          /\ q.log[i - 1] = Call("head", "file", q.sourceS3SubPath, <<>>, "ok")
     /\ \A i \in Calls(q, IsSourceHead) : q.log[i].key = q.sourceS3SubPath
     /\ Cardinality(Calls(q, IsSourceHead)) <= 1
     /\ (Done(q) /\ q.status = 201) => Cardinality(Calls(q, IsCopy)) = 1
     /\ Calls(q, IsMissing) # {} =>
          /\ Done(q)
          /\ q.status = 404
          /\ q.via = "return"
          /\ Calls(q, IsCopy) = {}
     /\ Calls(q, IsOtherPut) = {}

\* C14 as stated: a COPY of a file issues no list call, heads the source
\* key and only after a successful head issues exactly one copy from the
\* source key to the destination key; a head that reports 404 ends the
\* request with 404 and no copy.
C14_FileCopyNoListCall ==
  \A r \in DOMAIN req :
    C14_Case(req[r]) =>
      /\ Calls(req[r], IsListCall) = {}
      /\ C14_HeadThenOneCopy(req[r])

\* C14 amended: a COPY of a file never enumerates a prefix; the only list
\* call it may issue is the one-key probe of checkDirectoryExists on the
\* parent directory of the destination, at most once. The rest as stated.
C14_FileCopyNoEnumeration ==
  \A r \in DOMAIN req :
    LET q == req[r]
        IsEnumeration(c) == c.op = "list"
        IsProbe(c) == c.op = "probe"
        IsOtherProbe(c) == c.op = "probe" /\ c.key # DestParentPath(q.destS3SubPath)
    IN C14_Case(q) =>
         /\ Calls(q, IsEnumeration) = {}
         /\ Cardinality(Calls(q, IsProbe)) <= 1
         /\ Calls(q, IsOtherProbe) = {}
         /\ C14_HeadThenOneCopy(q)

\* a COPY of a file answered 201 after probing the parent of its destination
\* and copying once
C14_Witness ==
  \E r \in DOMAIN req :
    LET q == req[r]
        IsProbe(c) == c.op = "probe"
        IsCopy(c) == c.op = "copy" /\ c.res = "ok"
    IN /\ C14_Case(q)
       /\ Done(q)
       /\ q.status = 201
       /\ Calls(q, IsProbe) # {}
       /\ Cardinality(Calls(q, IsCopy)) = 1

\* the put of the marker of the destination's parent directory
IsParentPut(c) == c.op = "put" /\ c.at = "parent"

\* a call that raises into the catch block: a storage failure anywhere but
\* in the put of the parent marker, or a copy whose source is gone
IsRaised(c) ==
  \/ IsFailed(c) /\ ~IsParentPut(c)
  \/ c.op = "copy" /\ c.res = "404"

\* the response the calls of the request other than the put of the parent
\* marker lead to
ResponseOf(q) ==
  LET IsDestFound(c) == c.op = "head" /\ c.at = "dest" /\ c.res = "ok"
      IsSourceMissing(c) == c.op = "head" /\ c.at \in {"file", "emptyDir"} /\ c.res = "404"
  IN IF Calls(q, IsRaised) # {} THEN <<handleWebDAVError(500), "catch">>
     ELSE IF Calls(q, IsDestFound) # {} /\ ~q.allowOverwrite THEN <<412, "return">>
     ELSE IF Calls(q, IsSourceMissing) # {} THEN <<404, "return">>
     ELSE <<201, "return">>

\* C15: the put of the marker of the destination's parent is attempted at
\* most once, right after the probe that found the parent missing, and when
\* the parent is missing it is attempted; when it fails nothing is written
\* and the request goes on to the head of the destination; the request ends
\* in the catch block only through another call, and its response is the one
\* its other calls lead to.
C15_ParentPutFailureSwallowed ==
  \A r \in DOMAIN req :
    LET q == req[r]
        n == Len(q.log)
        IsParentProbe(c) == c.op = "probe" /\ c.at = "parent"
        IsFailedParentPut(c) == IsParentPut(c) /\ IsFailed(c)
        WritesAtParent == { i \in 1..Len(writes) :
                              /\ writes[i].r = r
                              /\ writes[i].key = DestParentPath(q.destS3SubPath) }
    IN HasKeys(q) =>
         /\ Cardinality(Calls(q, IsParentPut)) <= 1
         /\ \A i \in Calls(q, IsParentPut) :
              /\ q.log[i].key = DestParentPath(q.destS3SubPath)
              /\ i > 1
              /\ q.log[i - 1] = Call("probe", "parent", q.log[i].key, <<>>, "ok")
              /\ i = n => q.pc = "headDest"
              /\ i < n => q.log[i + 1].op = "head" /\ q.log[i + 1].at = "dest"
         /\ \A i \in Calls(q, IsParentProbe) :
              (/\ Alone
               /\ i < n
               /\ q.log[i].res = "ok"
               /\ ~ \E k \in DOMAIN q.snap[q.bucket] : StartsWith(k, q.log[i].key))
                => IsParentPut(q.log[i + 1])
         /\ (/\ Calls(q, IsFailedParentPut) # {}
             /\ DestParentPath(q.destS3SubPath) # q.destS3SubPath) => WritesAtParent = {}
         /\ (Done(q) /\ q.via = "catch") => (n > 0 /\ IsRaised(q.log[n]))
         /\ Done(q) => <<q.status, q.via>> = ResponseOf(q)

\* a COPY whose put of the parent marker failed answered 201
C15_Witness ==
  \E r \in DOMAIN req :
    LET q == req[r]
        IsFailedParentPut(c) == IsParentPut(c) /\ IsFailed(c)
    IN /\ HasKeys(q)
       /\ Done(q)
       /\ q.status = 201
       /\ Calls(q, IsFailedParentPut) # {}

\* a list call of the enumeration of the source prefix
IsEnumeration(c) == c.op = "list" /\ c.at = "enumerate"

\* the enumeration has ended and no transfer write has been made yet
ListingJustEnded(q) ==
  /\ HasKeys(q)
  /\ Calls(q, IsEnumeration) # {}
  /\ \/ q.pc = "headSourceDir"
     \/ q.pc = "copy" /\ q.i = 1

\* C16: the list calls of a recursive directory COPY follow one another with
\* no other call in between; the first carries no continuation token, each
\* later one carries a token, further down the listing than the one before;
\* a list call that received a token is followed by the next list call and
\* the loop stops when a page brings none, so that the pages together hold
\* every key under the source prefix once, in listing order, in as many
\* calls as pages are needed; every per-object copy comes after the last
\* list call.
C16_SequentialListing ==
  \A r \in DOMAIN req :
    LET q == req[r]
        L == Calls(q, IsEnumeration)
        n == Len(q.objects)
        under == { k \in DOMAIN store[q.bucket] : StartsWith(k, q.sourceS3SubPath) }
        pages == IF Cardinality(under) <= PageSize THEN 1
                 ELSE (Cardinality(under) + PageSize - 1) \div PageSize
    IN HasKeys(q) =>
         /\ \A i, k \in L : \A m \in i..k : m \in L
         /\ \A i \in L :
              /\ q.log[i].key = q.sourceS3SubPath
              /\ (i - 1 \notin L) <=> (q.log[i].from = <<>>)
              /\ (i - 1 \in L) => /\ q.log[i - 1].res = "ok"
                                  /\ q.log[i - 1].from # q.log[i].from
                                  /\ q.log[i - 1].from = <<>> \/ KeyLess(q.log[i - 1].from, q.log[i].from)
         /\ (q.pc = "list") <=>
              (/\ ~Done(q)
               /\ q.isDirectory
               /\ \/ L = {} /\ q.log[Len(q.log)].at \in {"dest"} /\ DepthOf(q) = "infinity"
                  \/ L # {} /\ q.continuationToken # <<>>)
         /\ (q.pc = "list" /\ L # {}) => Len(q.log) \in L
         /\ \A i \in L : \A k \in Calls(q, IsLoopCopy) : i < k
         /\ (q.pc = "list") => Calls(q, IsLoopCopy) = {}
         /\ (Alone /\ ListingJustEnded(q)) =>
              /\ q.continuationToken = <<>>
              /\ Cardinality(L) = pages
              /\ n = Cardinality(under)
              /\ { q.objects[i] : i \in 1..n } = under
              /\ \A i \in 1..(n - 1) : KeyLess(q.objects[i], q.objects[i + 1])

\* a recursive COPY alone listed its source in two pages, the second call
\* carrying a token, copied every object listed and answered 201
C16_Witness ==
  \E r \in DOMAIN req :
    LET q == req[r]
        L == Calls(q, IsEnumeration)
    IN /\ Alone
       /\ HasKeys(q)
       /\ Done(q)
       /\ q.status = 201
       /\ Cardinality(L) >= 2
       /\ \E i \in L : q.log[i].from # <<>>
       /\ Len(q.objects) > PageSize
       /\ Cardinality(Calls(q, IsLoopCopy)) = Len(q.objects)

\* a failure other than not-found in the destination existence check, the
\* source existence check, a list, a put of the transfer or a copy
IsHardFailure(c) ==
  /\ IsFailed(c)
  /\ c.op \in {"head", "list", "put", "copy"}
  /\ c.at \in {"dest", "file", "emptyDir", "enumerate", "depth0", "loop"}

\* C17: a failure other than not-found in the head of the destination, the
\* head of the source, a list call, a put of the transfer or a copy is the
\* last call of the request: the request is done at once, through the catch
\* block and the shared translation of errors, with a status other than
\* 201, 404 and 412 (the failure is not taken for an absent or a present
\* object), the failed call wrote nothing, and there is no cache
\* invalidation, no propagation and no last-used refresh after it.
C17_FailureStopsRequest ==
  \A r \in DOMAIN req :
    LET q == req[r]
        n == Len(q.log)
    IN HasKeys(q) =>
         \A i \in Calls(q, IsHardFailure) :
           /\ i = n
           /\ Done(q)
           /\ q.via = "catch"
           /\ q.status = handleWebDAVError(500)
           /\ q.status \notin {201, 404, 412}
           /\ Cardinality(Calls(q, IsHardFailure)) = 1
           /\ Cardinality({ w \in 1..Len(writes) : writes[w].r = r }) =
                Cardinality({ k \in 1..n : IsWrite(q.log[k]) /\ q.log[k].res = "ok" })

\* the head of a destination that exists failed for a COPY with Overwrite: F:
\* the request answered neither 412 nor 201 and wrote nothing
C17_Witness ==
  \E r \in DOMAIN req :
    LET q == req[r]
        IsFailedDestHead(c) == IsHardFailure(c) /\ c.at = "dest"
    IN /\ Alone
       /\ HasKeys(q)
       /\ Done(q)
       /\ ~q.allowOverwrite
       /\ q.destS3SubPath \in DOMAIN q.snap[q.bucket]
       /\ Calls(q, IsFailedDestHead) # {}
       /\ q.via = "catch"
       /\ store = q.snap

\* C18: a COPY handled alone answers 412 only if an object was at the
\* destination key when the request arrived; with Overwrite: F and an absent
\* destination it never answers 412, the creation of the marker of the
\* destination's parent included.
C18_412OnlyIfDestinationExisted ==
  \A r \in DOMAIN req :
    LET q == req[r]
    IN (Alone /\ HasKeys(q) /\ Done(q) /\ q.status = 412) =>
         q.destS3SubPath \in DOMAIN q.snap[q.bucket]

\* a COPY handled alone that answered 404 because its source does not exist
C19_Case(q) ==
  LET IsSourceMissing(c) == c.op = "head" /\ c.at \in {"file", "emptyDir"} /\ c.res = "404"
  IN /\ Alone
     /\ HasKeys(q)
     /\ Done(q)
     /\ q.status = 404
     /\ Calls(q, IsSourceMissing) # {}

\* C19 as stated: a COPY that answers 404 because its source does not exist
\* leaves the bucket as it was when the request arrived.
C19_MissingSourceChangesNothing ==
  \A r \in DOMAIN req :
    C19_Case(req[r]) => store = req[r].snap

\* C19 amended: such a COPY issues no copy and no put of the transfer, no
\* cache invalidation and no propagation; the one object it may have
\* created is the empty marker at the key the handler computes as the
\* parent of the destination, when nothing was at that key or under it; no
\* other key is created or changed and no existing object is replaced.
C19_MissingSourceOnlyParentMarker ==
  \A r \in DOMAIN req :
    LET q == req[r]
        parent == DestParentPath(q.destS3SubPath)
        before == q.snap[q.bucket]
        after == store[q.bucket]
        IsOkParentPut(c) == IsParentPut(c) /\ c.res = "ok"
    IN C19_Case(q) =>
         /\ Calls(q, IsTransferWrite) = {}
         /\ cacheCalls = <<>>
         /\ touched = {}
         /\ \A b \in DOMAIN store : b # q.bucket => store[b] = q.snap[b]
         /\ \A k \in DOMAIN before : k \in DOMAIN after /\ after[k] = before[k]
         /\ \A k \in DOMAIN after \ DOMAIN before :
              /\ k = parent
              /\ Includes(q.destS3SubPath, "/")
              /\ after[k] = 0
              /\ Calls(q, IsOkParentPut) # {}
              /\ ~ \E o \in DOMAIN before : StartsWith(o, parent)

\* a COPY of a missing file answered 404 after it created the marker of the
\* destination's parent directory
C19_Witness ==
  \E r \in DOMAIN req :
    LET q == req[r]
    IN /\ C19_Case(q)
       /\ ~q.isDirectory
       /\ store # q.snap
       /\ DestParentPath(q.destS3SubPath) # q.destS3SubPath
       /\ DestParentPath(q.destS3SubPath) \in DOMAIN store[q.bucket]

\* the copies of the loop, in the order in which they were issued
LoopCopies(q) == SelectSeq(q.log, IsLoopCopy)

\* what C20 says of every state: a request that has begun and not answered
\* has a next step (a request that has not begun is begun by Resolve, which
\* has no condition but the position); it has a status exactly when it is
\* done; the copies of its loop are those of the objects listed, one each, in
\* order; its calls are bounded by the number of objects listed
C20_EveryState ==
  \A r \in DOMAIN req :
    LET q == req[r]
        copies == LoopCopies(q)
    IN /\ Done(q) \/ q.pc = "start" \/ ENABLED Proceed(r)
       /\ Done(q) <=> q.status # 0
       /\ Len(copies) <= Len(q.objects)
       /\ \A i \in 1..Len(copies) : copies[i].from = q.objects[i]
       /\ (Done(q) /\ q.status = 201 /\ Len(q.objects) > 0) => Len(copies) = Len(q.objects)
       /\ Len(q.log) <= 13 + 2 * Len(q.objects)

\* what C20 says of every step: a request that has answered does nothing
\* more; every step of a request adds to its calls; once the copy loop has
\* begun the objects listed stay what they are and the request lists no more
C20_EveryStep ==
  \A r \in DOMAIN req :
    /\ Done(req[r]) => req'[r] = req[r]
    /\ req'[r] # req[r] => Len(req'[r].log) > Len(req[r].log)
    /\ req[r].pc = "copy" =>
         /\ req'[r].objects = req[r].objects
         /\ req'[r].pc \in {"copy", "propagate", "done"}

\* C20: every COPY ends with exactly one response when its storage calls
\* return: it can always take a next step until it answers, each step adds a
\* call, the calls are bounded, and after the answer nothing happens; a
\* recursive COPY issues one copy per object listed before the first copy
\* and never lists again, so that a destination below the source prefix
\* does not feed the loop.
C20_Terminates == [](C20_EveryState) /\ [][C20_EveryStep]_vars

\* a recursive COPY to a destination below its own source answered 201 after
\* one copy per object listed; objects it created lie under the source
\* prefix and were not enumerated
C20_Witness ==
  \E r \in DOMAIN req :
    LET q == req[r]
    IN /\ Alone
       /\ HasKeys(q)
       /\ Done(q)
       /\ q.status = 201
       /\ q.isDirectory
       /\ StartsWith(q.destS3SubPath, q.sourceS3SubPath)
       /\ Len(q.objects) >= 2
       /\ Len(LoopCopies(q)) = Len(q.objects)
       /\ \E k \in DOMAIN store[q.bucket] :
            /\ StartsWith(k, q.sourceS3SubPath)
            /\ k \notin DOMAIN q.snap[q.bucket]
            /\ \A i \in 1..Len(q.objects) : q.objects[i] # k

(* ------------------------ properties of the upload -------------------- *)

\* the positions in the record of the upload of the events of one kind
Events(op) == { i \in 1..Len(up.log) : up.log[i].op = op }

\* the PUT ended with load and a status from 200 to 299
IsPutSuccess(e) ==
  e.op = "putDone" /\ e.res = "load" /\ e.arg >= 200 /\ e.arg <= 299

\* the presign request was answered with success and data
IsGoodPresign(e) ==
  /\ e.op = "presignDone"
  /\ e.res = "resolves"
  /\ e.arg.success
  /\ e.arg.data = "data"

\* C21: the presign request, the PUT and the commit are sent at most once
\* each and in this order; a PUT is sent only after the presign request was
\* answered with success and data; a commit is sent only right after the PUT
\* ended with load and a 2xx status, never after an error, an abort or
\* another status; the upload returns only after the commit was answered.
C21_PresignPutCommitInOrder ==
  LET n == Len(up.log)
  IN /\ Cardinality(Events("presign")) <= 1
     /\ Cardinality(Events("put")) <= 1
     /\ Cardinality(Events("commit")) <= 1
     /\ Cardinality(Events("putDone")) <= 1
     /\ \A i \in Events("presign") : i = 1
     /\ \A i \in Events("put") :
          /\ Events("presign") = {1}
          /\ \E k \in 2..(i - 1) : IsGoodPresign(up.log[k])
          /\ \A k \in 1..(i - 1) : up.log[k].op \notin {"put", "putDone", "commit", "commitDone"}
     /\ \A i \in Events("putDone") : i > 1 /\ up.log[i - 1].op = "put"
     /\ \A i \in Events("commit") :
          /\ i > 1
          /\ IsPutSuccess(up.log[i - 1])
          /\ \E k \in 1..(i - 1) : up.log[k].op = "put"
     /\ \A i \in Events("putDone") :
          ~IsPutSuccess(up.log[i]) =>
            /\ Events("commit") = {}
            /\ up.pc \in {"import", "delete", "thrown"}
     /\ up.pc = "returned" =>
          /\ Events("commit") # {}
          /\ up.log[n].op = "commitDone"
          /\ up.log[n].res = "ok"

\* an upload returned after presign, a PUT answered 204 and the commit
C21_Witness ==
  /\ up.pc = "returned"
  /\ up.fileId = "f1"
  /\ \E i \in Events("putDone") : up.log[i].arg = 204
  /\ Events("commit") # {}

\* the error of the step that failed: of the event of the record that sends
\* the upload to the catch block
FailureOf(e) ==
  IF e.op = "presignDone"
    THEN IF e.res = "throws" THEN getUploadPresignedUrl(e.arg).error ELSE PresignError(e.arg)
  ELSE IF e.op = "onFileIdReady" /\ e.res = "throws" THEN <<"onFileIdReady">>
  ELSE IF e.op = "onXhrReady" /\ e.res = "throws" THEN <<"onXhrReady">>
  ELSE IF e.op = "putDone" THEN PutError([event |-> e.res, status |-> e.arg])
  ELSE IF e.op = "commitDone" /\ e.res = "throws" THEN <<"commitFailed">>
  ELSE <<>>

\* the presign response supplied a file_id
FileIdKnown ==
  \E i \in Events("presignDone") :
    IsGoodPresign(up.log[i]) /\ up.log[i].arg.file_id \notin {"null", "undefined", ""}

\* C22: the deletion of the file record is sent at most once, for the
\* file_id of the presign response, and only after a step failed; an upload
\* that has thrown after the presign response supplied a file_id has sent it
\* exactly once if the caller is an admin or holds an API key and not at all
\* otherwise; an upload that has thrown before a file_id was known has sent
\* none; what is thrown is the error of the step that failed, also when the
\* deletion failed.
C22_DeletionOnceOriginalErrorRethrown ==
  LET n == Len(up.log)
      deletes == Events("delete")
      failed == { i \in 1..n : up.log[i].op \notin {"delete", "deleteDone"}
                               /\ FailureOf(up.log[i]) # <<>> }
      entitled == up.isAdmin \/ (up.authType = "apikey" /\ up.apiKey = "k")
  IN /\ Cardinality(deletes) <= 1
     /\ Cardinality(failed) <= 1
     /\ \A i \in deletes :
          /\ FileIdKnown
          /\ up.log[i].arg = up.fileId
          /\ \E k \in failed : k < i
     /\ up.pc = "thrown" =>
          /\ Cardinality(failed) = 1
          /\ \A k \in failed : up.thrown = FailureOf(up.log[k])
          /\ FileIdKnown => Cardinality(deletes) = IF entitled THEN 1 ELSE 0
          /\ ~FileIdKnown => deletes = {}
     /\ up.pc = "returned" =>
          /\ deletes = {}
          /\ failed = {}
          /\ up.thrown = <<>>

\* the PUT of an upload was aborted, the deletion of its file record was
\* sent once and failed, and the upload threw the error of the abort
C22_Witness ==
  /\ up.pc = "thrown"
  /\ FileIdKnown
  /\ \E i \in Events("putDone") : up.log[i].res = "abort"
  /\ Cardinality(Events("delete")) = 1
  /\ \E i \in Events("deleteDone") : up.log[i].res = "throws"
  /\ up.thrown = <<"cancelled">>

=============================================================================
